---- MODULE Spec2Model ----
(***************************************************************************)
(* Catalog service of sarpsahinalp/cloud-exercise (server/cmd/main.go):    *)
(* the /api/books handlers of the replicas, all working on one shared     *)
(* MongoDB collection.  Every store round trip (FindOne, InsertOne,       *)
(* UpdateOne, DeleteOne, Find) is one atomic step; a handler that makes    *)
(* two round trips (POST, PUT) is two steps, so that requests served       *)
(* concurrently by different replicas interleave between them.            *)
(*                                                                         *)
(* The store is assumed reachable while requests are served: the only      *)
(* write error modelled is the duplicate-key error of the _id index.      *)
(***************************************************************************)
EXTENDS Integers, Sequences, FiniteSets, TLC

\* ------------------------------------------------------------------ bounds
\* Number of identifiers the driver can still generate after the seed data.
MaxGenerated == 2

\* ------------------------------------------------------------ identifiers
\* primitive.ObjectID is 12 bytes, rendered as 24 hex characters.  The model
\* keeps one byte, rendered as IdHexLen hex characters.
IdHexLen == 2

\* primitive.NilObjectID, the zero value of BookStore.ID.
NilObjectID == 0

\* The first identifier the driver generates (for the first seed record).
FirstObjectID == 10

LowerDigits == <<"0", "1", "2", "3", "4", "5", "6", "7", "8", "9",
                 "a", "b", "c", "d", "e", "f">>

UpperDigits == <<"0", "1", "2", "3", "4", "5", "6", "7", "8", "9",
                 "A", "B", "C", "D", "E", "F">>

IsHexDigit(ch) == \E k \in 1..16 : LowerDigits[k] = ch \/ UpperDigits[k] = ch

HexValue(ch) == (CHOOSE k \in 1..16 : LowerDigits[k] = ch \/ UpperDigits[k] = ch) - 1

\* ObjectID.Hex(): lower-case hex rendering, a sequence of characters.
Hex(id) == <<LowerDigits[(id \div 16) + 1], LowerDigits[(id % 16) + 1]>>

\* primitive.ObjectIDFromHex: an error (and the zero identifier) unless the
\* string has the full length and only hex digits, of either case.
ObjectIDFromHex(s) ==
    IF Len(s) = IdHexLen /\ \A k \in 1..Len(s) : IsHexDigit(s[k])
    THEN [id |-> HexValue(s[1]) * 16 + HexValue(s[2]), err |-> FALSE]
    ELSE [id |-> NilObjectID, err |-> TRUE]

\* ---------------------------------------------------------------- records
\* The five descriptive fields of the seed data inserted at startup.
startData ==
    << [name |-> "The Vortex", author |-> "Jose Eustasio Rivera",
        isbn |-> "958-30-0804-4", pages |-> 292, year |-> 1924],
       [name |-> "Frankenstein", author |-> "Mary Shelley",
        isbn |-> "978-3-649-64609-9", pages |-> 280, year |-> 1818],
       [name |-> "The Black Cat", author |-> "Edgar Allan Poe",
        isbn |-> "978-3-99168-238-7", pages |-> 280, year |-> 1843] >>

\* type BookStore: the persisted form.
BookStore(id, f) ==
    [ID |-> id, BookName |-> f.name, BookAuthor |-> f.author,
     BookISBN |-> f.isbn, BookPages |-> f.pages, BookYear |-> f.year]

\* type Book: the wire form; id is a string, here a sequence of characters.
Book(id, f) ==
    [id |-> id, name |-> f.name, author |-> f.author,
     isbn |-> f.isbn, pages |-> f.pages, year |-> f.year]

\* The zero value of Book, left by c.Bind when the request has no body.
NoBook == [id |-> <<>>, name |-> "", author |-> "", isbn |-> "", pages |-> 0, year |-> 0]

\* The five-field tuple of a persisted record and of a wire record.
StoreFields(d) ==
    [name |-> d.BookName, author |-> d.BookAuthor, isbn |-> d.BookISBN,
     pages |-> d.BookPages, year |-> d.BookYear]

WireFields(b) ==
    [name |-> b.name, author |-> b.author, isbn |-> b.isbn,
     pages |-> b.pages, year |-> b.year]

\* convertToBookstore with two assignments mixed up: the author is taken
\* from the name.
convertToBookstore_swapped(book) ==
    [ID |-> IF book.id # <<>> THEN ObjectIDFromHex(book.id).id ELSE NilObjectID,
     BookName |-> book.name, BookAuthor |-> book.name, BookISBN |-> book.isbn,
     BookPages |-> book.pages, BookYear |-> book.year]

\* convertToBookstore: the identifier is decoded when the wire identifier is
\* not empty, a decoding error is dropped and leaves the zero identifier.
convertToBookstore(book) ==
    [ID |-> IF book.id # <<>> THEN ObjectIDFromHex(book.id).id ELSE NilObjectID,
     BookName |-> book.name, BookAuthor |-> book.author, BookISBN |-> book.isbn,
     BookPages |-> book.pages, BookYear |-> book.year]

\* ------------------------------------------------------------------ store
\* HTTP status codes the handlers answer with.
StatusOK == 200

StatusDuplicatePost == 304

StatusDuplicatePut == 201

\* The identifiers the driver generates for documents inserted without _id:
\* the seed records first, then MaxGenerated more.
LastObjectID == FirstObjectID + Len(startData) + MaxGenerated - 1

GenerableIds == FirstObjectID..LastObjectID

\* primitive.NewObjectID as InsertOne uses it for a document without _id:
\* an identifier no document was ever stored under.
CanGenerate(asg) == GenerableIds \ asg # {}

NewObjectID(asg) ==
    CHOOSE i \in GenerableIds \ asg : \A j \in GenerableIds \ asg : i <= j

\* coll.InsertOne.  ID carries `bson:"_id,omitempty"`: the zero identifier is
\* left out of the document and the driver generates one; any other
\* identifier is written as the document's _id, and the unique _id index
\* refuses it with a duplicate-key error when a live document has it.
InsertOne(c, asg, doc) ==
    LET id == IF doc.ID = NilObjectID THEN NewObjectID(asg) ELSE doc.ID
    IN  IF \E d \in c : d.ID = id
        THEN [coll |-> c, err |-> TRUE, InsertedID |-> NilObjectID]
        ELSE [coll |-> c \cup {[doc EXCEPT !.ID = id]}, err |-> FALSE,
              InsertedID |-> id]

\* checkIfDuplicateExists with the record being written left out of the
\* filter ({_id: {$ne: ID}}).
checkIfDuplicateExists_excludingSelf(c, book) ==
    \E d \in c : d.ID # book.ID /\ StoreFields(d) = StoreFields(book)

\* checkIfDuplicateExists: FindOne with the five fields as equality filter;
\* true iff a document was found.
checkIfDuplicateExists(c, book) ==
    \E d \in c : StoreFields(d) = StoreFields(book)

\* saveBook as it would be with a unique index on the five fields: the
\* insert is refused when a live document already holds them.
saveBook_uniqueIndex(c, asg, newBook) ==
    LET res == InsertOne(c, asg, newBook)
    IN  IF res.err \/ checkIfDuplicateExists(c, newBook)
        THEN [coll |-> c, ret |-> <<>>]
        ELSE [coll |-> res.coll, ret |-> <<res.InsertedID>>]

\* saveBook: nil when the insert fails, otherwise a list holding the
\* inserted identifier.
saveBook(c, asg, newBook) ==
    LET res == InsertOne(c, asg, newBook)
    IN  IF res.err
        THEN [coll |-> c, ret |-> <<>>]
        ELSE [coll |-> res.coll, ret |-> <<res.InsertedID>>]

\* updateBook with bookyear left out of the $set document.
updateBook_partial(c, updatedBook) ==
    {IF d.ID = updatedBook.ID
     THEN [updatedBook EXCEPT !.BookYear = d.BookYear]
     ELSE d : d \in c}

\* updateBook with the upsert option: a document is created when no
\* document has the identifier.
updateBook_upsert(c, updatedBook) ==
    IF \E d \in c : d.ID = updatedBook.ID
    THEN {IF d.ID = updatedBook.ID THEN updatedBook ELSE d : d \in c}
    ELSE c \cup {updatedBook}

\* updateBook with $inc instead of $set on bookpages.
updateBook_inc(c, updatedBook) ==
    {IF d.ID = updatedBook.ID
     THEN [updatedBook EXCEPT !.BookPages = d.BookPages + updatedBook.BookPages]
     ELSE d : d \in c}

\* updateBook: UpdateOne with filter {_id: ID} and $set of the five fields;
\* no upsert, so nothing happens when no document has the identifier.
updateBook(c, updatedBook) ==
    {IF d.ID = updatedBook.ID THEN updatedBook ELSE d : d \in c}

\* deleteBook with the identifier marked omitempty in the filter: the zero
\* identifier gives the empty filter, and DeleteOne removes the first
\* document it finds.
deleteBook_emptyFilter(c, id) ==
    IF id = NilObjectID /\ c # {}
    THEN c \ {CHOOSE d \in c : \A e \in c : d.ID <= e.ID}
    ELSE {d \in c : d.ID # id}

\* deleteBook: DeleteOne with filter {_id: id}.
deleteBook(c, id) == {d \in c : d.ID # id}

\* getAllBooks: Find with the empty filter, every document in wire form.
\* The order is the store's; the model keeps the set.
getAllBooks(c) == {Book(Hex(d.ID), StoreFields(d)) : d \in c}

\* ------------------------------------------------------------------ state
VARIABLES
    coll,       \* the documents of the collection "information"
    assigned,   \* every identifier a document was ever stored under
    req,        \* per client: the request in flight or the last response
    replica,    \* per replica: where its process is in main
    collections,\* the names of the collections of database "exercise-1"
    route,      \* per client: what the router did with its last request
    conv        \* a wire record under conversion (see Convert, Render)

\* The store and the requests, as the handlers see them.
vars == <<coll, assigned, req>>

\* The deployment around the handlers.
topology == <<replica, collections, route, conv>>

allVars == <<coll, assigned, req, replica, collections, route, conv>>

\* The requests that can be in flight at the same time, one per client
\* connection; each is served by whichever replica the router picks.
Clients == {"c1", "c2"}

\* Request inputs.
Dune == [name |-> "Dune", author |-> "Herbert", isbn |-> "0-441-17271-7",
         pages |-> 412, year |-> 1965]

InputFields == {startData[1], Dune}

\* Wire identifiers: empty, undecodable, the first seed record's identifier
\* and the first one the store has not assigned yet.
InputIds ==
    {<<>>, <<"z", "z">>, Hex(FirstObjectID), Hex(FirstObjectID + Len(startData))}

InputBooks == {Book(i, f) : i \in InputIds, f \in InputFields}

\* The :id path parameter of DELETE is never empty (the route would not match).
InputParams == InputIds \ {<<>>}

Idle ==
    [pc |-> "idle", method |-> "", book |-> NoBook, param |-> <<>>,
     status |-> 0, msg |-> "", ids |-> <<>>, books |-> {}]

\* A request being handled, waiting for its second store round trip.
Pending(pc, method, book) ==
    [Idle EXCEPT !.pc = pc, !.method = method, !.book = book]

\* c.JSON(status, ...): the answered request.
Answer(method, book, param, status, msg, ids, books) ==
    [pc |-> "done", method |-> method, book |-> book, param |-> param,
     status |-> status, msg |-> msg, ids |-> ids, books |-> books]

\* A client sends its next request when none is in flight.
Ready(c) == req[c].pc \in {"idle", "done"}

\* The services of the deployment that run the catalog service image.
Replicas == {"backend", "get", "delete", "post", "put"}

\* main: prepareDatabase(client, "exercise-1", "information").
CollectionName == "information"

\* A replica whose process is not running, and one that serves requests
\* (e.Start); seed is the index in startData prepareData is working on.
\* compose: environment DATABASE_URI of every replica.
DatabaseUri == "mongodb://mongodb:27017"

\* A replica: where its process is (pc), main's uri and coll, the index of
\* the seed record prepareData is at, and why the process ended.
Down == [pc |-> "down", uri |-> "", coll |-> "nil", seed |-> 0, reason |-> ""]

Serving ==
    [pc |-> "serving", uri |-> DatabaseUri, coll |-> "set", seed |-> 0,
     reason |-> ""]

\* No request seen by the router yet.
NoRoute == [path |-> <<>>, method |-> "", pool |-> "", status |-> 0]

\* No conversion under way.
NoConv ==
    [stage |-> "none", wire |-> NoBook, stored |-> convertToBookstore(NoBook),
     back |-> NoBook]

\* main: the state the replicas leave on a fresh store when they were
\* started one after another and serve: prepareData has inserted the seed
\* records once.
Init ==
    /\ coll = {BookStore(FirstObjectID + k - 1, startData[k]) : k \in 1..Len(startData)}
    /\ assigned = {FirstObjectID + k - 1 : k \in 1..Len(startData)}
    /\ req = [c \in Clients |-> Idle]
    /\ replica = [r \in Replicas |-> Serving]
    /\ collections = {CollectionName}
    /\ route = [c \in Clients |-> NoRoute]
    /\ conv = NoConv

\* ---------------------------------------------------------------- handlers
\* GET /api/books
GetBooks(c) ==
    /\ Ready(c)
    /\ req' = [req EXCEPT ![c] =
                 Answer("GET", NoBook, <<>>, StatusOK, "", <<>>, getAllBooks(coll))]
    /\ UNCHANGED <<coll, assigned>>

\* POST /api/books, first round trip: bind, convert, duplicate guard.
PostBooks_Check(c) ==
    /\ Ready(c)
    /\ \E book \in InputBooks :
         LET toPost == convertToBookstore(book)
         IN  req' = [req EXCEPT ![c] =
                       IF checkIfDuplicateExists(coll, toPost)
                       THEN Answer("POST", book, <<>>, StatusDuplicatePost,
                                   "Duplicate not allowed", <<>>, {})
                       ELSE Pending("post_save", "POST", book)]
    /\ UNCHANGED <<coll, assigned>>

\* POST /api/books, second round trip: saveBook, answered 200 with its result.
PostBooks_Save(c) ==
    /\ req[c].pc = "post_save"
    /\ LET toPost == convertToBookstore(req[c].book)
       IN  /\ toPost.ID # NilObjectID \/ CanGenerate(assigned)
           /\ LET res == saveBook(coll, assigned, toPost)
              IN  /\ coll' = res.coll
                  /\ assigned' = assigned \cup {d.ID : d \in res.coll}
                  /\ req' = [req EXCEPT ![c] =
                               Answer("POST", req[c].book, <<>>, StatusOK, "",
                                      res.ret, {})]

\* PUT /api/books, first round trip: bind, convert, duplicate guard.
PutBooks_Check(c) ==
    /\ Ready(c)
    /\ \E book \in InputBooks :
         LET toUpdate == convertToBookstore(book)
         IN  req' = [req EXCEPT ![c] =
                       IF checkIfDuplicateExists(coll, toUpdate)
                       THEN Answer("PUT", book, <<>>, StatusDuplicatePut,
                                   "Duplicate not allowed", <<>>, {})
                       ELSE Pending("put_update", "PUT", book)]
    /\ UNCHANGED <<coll, assigned>>

\* PUT /api/books, second round trip: updateBook, answered 200.
PutBooks_Update(c) ==
    /\ req[c].pc = "put_update"
    /\ coll' = updateBook(coll, convertToBookstore(req[c].book))
    /\ req' = [req EXCEPT ![c] =
                 Answer("PUT", req[c].book, <<>>, StatusOK, "Updated the book",
                        <<>>, {})]
    /\ UNCHANGED assigned

\* DELETE /api/books/:id; a decoding error is dropped and leaves the zero
\* identifier.
DeleteBooks(c) ==
    /\ Ready(c)
    /\ \E id \in InputParams :
         /\ coll' = deleteBook(coll, ObjectIDFromHex(id).id)
         /\ req' = [req EXCEPT ![c] =
                      Answer("DELETE", NoBook, id, StatusOK,
                             "Succesfully deleted entry", <<>>, {})]
    /\ UNCHANGED assigned

\* The PUT handler run without interruption: both round trips back to back.
PutBooks(c, book) ==
    LET toUpdate == convertToBookstore(book)
    IN  IF checkIfDuplicateExists(c, toUpdate)
        THEN [coll |-> c, status |-> StatusDuplicatePut]
        ELSE [coll |-> updateBook(c, toUpdate), status |-> StatusOK]

\* The handlers as a replica runs them, whatever replica it is: the
\* deployment around them stays as it is.
Next ==
    \E c \in Clients :
        \/ GetBooks(c) /\ UNCHANGED topology
        \/ PostBooks_Check(c) /\ UNCHANGED topology
        \/ PostBooks_Save(c) /\ UNCHANGED topology
        \/ PutBooks_Check(c) /\ UNCHANGED topology
        \/ PutBooks_Update(c) /\ UNCHANGED topology
        \/ DeleteBooks(c) /\ UNCHANGED topology

Spec == Init /\ [][Next]_vars

\* ----------------------------------------------------------------- router
\* Request paths, as sequences of characters.
PathRoot == <<"/">>

PathBooksPage == <<"/", "b", "o", "o", "k", "s">>

PathApi == <<"/", "a", "p", "i">>

PathApiBooks == PathApi \o <<"/", "b", "o", "o", "k", "s">>

PathApiBooksId(id) == PathApiBooks \o <<"/">> \o id

\* A path that begins with the characters /api without being /api/...
PathApix == PathApi \o <<"x">>

Paths ==
    {PathRoot, PathBooksPage, PathApix, PathApiBooks}
        \cup {PathApiBooksId(id) : id \in InputParams}

Methods == {"GET", "POST", "PUT", "DELETE", "HEAD", "PATCH"}

HasPrefix(path, prefix) ==
    Len(path) >= Len(prefix) /\ SubSeq(path, 1, Len(prefix)) = prefix

\* nginx picks the prefix location with the longest matching prefix:
\* "location /api" for every path that begins with /api, else "location /".
Location(path) == IF HasPrefix(path, PathApi) THEN "/api" ELSE "/"

\* The if blocks of "location /api", in their order: method and pool.
IfRules ==
    << <<"GET", "get">>, <<"POST", "post">>, <<"PUT", "put">>,
       <<"DELETE", "delete">> >>

\* Route with the PUT block passing to the pool of POST.
Route_putToPost(path, method) ==
    IF Location(path) = "/"
    THEN "backend"
    ELSE IF method = "PUT" THEN "post"
    ELSE LET hits == {k \in 1..Len(IfRules) : IfRules[k][1] = method}
         IN  IF hits = {} THEN "none"
             ELSE IfRules[CHOOSE k \in hits : \A j \in hits : j <= k][2]

\* Route with a proxy_pass to the full pool at the level of "location /api",
\* which takes the requests no if block matches.
Route_fallback(path, method) ==
    IF Location(path) = "/"
    THEN "backend"
    ELSE LET hits == {k \in 1..Len(IfRules) : IfRules[k][1] = method}
         IN  IF hits = {} THEN "backend"
             ELSE IfRules[CHOOSE k \in hits : \A j \in hits : j <= k][2]

\* Route without the if block of DELETE.
Route_noDelete(path, method) ==
    IF Location(path) = "/"
    THEN "backend"
    ELSE LET hits == {k \in 1..Len(IfRules) :
                        IfRules[k][1] = method /\ method # "DELETE"}
         IN  IF hits = {} THEN "none"
             ELSE IfRules[CHOOSE k \in hits : \A j \in hits : j <= k][2]

\* The upstream a request is passed to: "backend" for "location /"; in
\* "location /api" the proxy_pass of the last if block whose condition
\* holds, and none when no condition holds.
Route(path, method) ==
    IF Location(path) = "/"
    THEN "backend"
    ELSE LET hits == {k \in 1..Len(IfRules) : IfRules[k][1] = method}
         IN  IF hits = {} THEN "none"
             ELSE IfRules[CHOOSE k \in hits : \A j \in hits : j <= k][2]

\* upstream blocks: each pool has one server, the replica of its name.
Upstream(pool) == CHOOSE r \in Replicas : r = pool

\* The answer of nginx itself when "location /api" passes the request to no
\* upstream: it looks for a file, for GET and HEAD, and finds none (404);
\* other methods are not allowed on files (405).
RouterStatus(method) == IF method \in {"GET", "HEAD"} THEN 404 ELSE 405

\* The routes registered in main, as echo matches method and path: the
\* handler, the :id parameter, and the status when the answer needs no
\* /api handler (pages 200, no such path 404, path without this method 405).
Dispatch(method, path) ==
    LET itemPrefix == PathApiBooks \o <<"/">>
        rest == SubSeq(path, Len(itemPrefix) + 1, Len(path))
        none == [handler |-> "", param |-> <<>>, status |-> 404]
    IN  IF path = PathApiBooks
        THEN IF method = "GET" THEN [none EXCEPT !.handler = "GetBooks", !.status = 0]
             ELSE IF method = "POST" THEN [none EXCEPT !.handler = "PostBooks", !.status = 0]
             ELSE IF method = "PUT" THEN [none EXCEPT !.handler = "PutBooks", !.status = 0]
             ELSE [none EXCEPT !.status = 405]
        ELSE IF /\ HasPrefix(path, itemPrefix)
                /\ rest # <<>>
                /\ \A k \in 1..Len(rest) : rest[k] # "/"
        THEN IF method = "DELETE"
             THEN [handler |-> "DeleteBooks", param |-> rest, status |-> 0]
             ELSE [none EXCEPT !.status = 405]
        ELSE IF path \in {PathRoot, PathBooksPage}
        THEN IF method = "GET" THEN [none EXCEPT !.handler = "page", !.status = 200]
             ELSE [none EXCEPT !.status = 405]
        ELSE none

\* A replica handles a request: the first store round trip of the /api
\* handler echo dispatches to, or an answer without any /api handler.
Serve(c, method, path) ==
    LET d == Dispatch(method, path)
    IN  IF d.handler = "GetBooks" THEN GetBooks(c)
        ELSE IF d.handler = "PostBooks" THEN PostBooks_Check(c)
        ELSE IF d.handler = "PutBooks" THEN PutBooks_Check(c)
        ELSE IF d.handler = "DeleteBooks"
        THEN DeleteBooks(c) /\ req'[c].param = d.param
        ELSE /\ req' = [req EXCEPT ![c] = Idle]
             /\ UNCHANGED <<coll, assigned>>

\* The router has no upstream for the request and answers itself.
RouterReject(c) ==
    /\ Ready(c)
    /\ \E method \in Methods, path \in Paths :
         /\ Route(path, method) = "none"
         /\ route' = [route EXCEPT ![c] =
                        [path |-> path, method |-> method, pool |-> "none",
                         status |-> RouterStatus(method)]]
    /\ req' = [req EXCEPT ![c] = Idle]
    /\ UNCHANGED <<coll, assigned, replica, collections, conv>>

\* The router passes the request, unchanged, to the replica of the pool,
\* which handles it.
RouterForward(c) ==
    /\ Ready(c)
    /\ \E method \in Methods, path \in Paths :
         LET pool == Route(path, method)
         IN  /\ pool # "none"
             /\ replica[Upstream(pool)].pc = "serving"
             /\ Serve(c, method, path)
             /\ route' = [route EXCEPT ![c] =
                            [path |-> path, method |-> method, pool |-> pool,
                             status |-> Dispatch(method, path).status]]
    /\ UNCHANGED <<replica, collections, conv>>

\* The clients whose requests go through the router; a request is routed
\* on its own method and path, whatever other requests are in flight.
RouterClients == {"c1"}

NextRouter ==
    \E c \in RouterClients :
        \/ RouterReject(c)
        \/ RouterForward(c)
        \/ PostBooks_Save(c) /\ UNCHANGED topology
        \/ PutBooks_Update(c) /\ UNCHANGED topology

SpecRouter == Init /\ [][NextRouter]_allVars

\* ---------------------------------------------------------------- startup
\* The replicas whose startup is followed; the others stay down.
BootReplicas == {"backend", "get", "post"}

\* The process of replica r ends: os.Exit, log.Fatal or a panic.
Exited(r, reason) == [replica[r] EXCEPT !.pc = "exited", !.reason = reason]

\* prepareData goes on after seed record k: the next record, or back to
\* main, which starts the server.
Advance(r, k) ==
    IF k < Len(startData)
    THEN [replica[r] EXCEPT !.pc = "find", !.seed = k + 1]
    ELSE [replica[r] EXCEPT !.pc = "serving", !.seed = 0]

\* main up to mongo.Connect, which does not reach the store yet: a replica
\* that is down or running is (re)started and reads DATABASE_URI.
Start(r) ==
    /\ replica[r].pc \in {"down", "serving"}
    /\ \E uri \in {"", DatabaseUri} :
         replica' = [replica EXCEPT ![r] =
            IF uri = ""
            THEN [Down EXCEPT !.pc = "exited",
                              !.reason = "failure to load env variable"]
            ELSE [Down EXCEPT !.pc = "list", !.uri = uri]]
    /\ UNCHANGED <<coll, assigned, req, collections, route, conv>>

\* List with a failed listing leaving the replica to serve.
List_servesWithoutStore(r) ==
    /\ replica[r].pc = "list"
    /\ \E ok \in BOOLEAN :
         replica' = [replica EXCEPT ![r] =
            IF ~ok
            THEN [replica[r] EXCEPT !.pc = "serving"]
            ELSE IF CollectionName \in collections
            THEN [replica[r] EXCEPT !.pc = "find", !.coll = "set", !.seed = 1]
            ELSE [replica[r] EXCEPT !.pc = "create"]]
    /\ UNCHANGED <<coll, assigned, req, collections, route, conv>>

\* prepareDatabase, ListCollectionNames.  When it fails (the store is not
\* reachable) prepareDatabase returns a nil collection and an error; main
\* drops the error and prepareData panics on the nil collection.
List(r) ==
    /\ replica[r].pc = "list"
    /\ \E ok \in BOOLEAN :
         replica' = [replica EXCEPT ![r] =
            IF ~ok
            THEN Exited(r, "panic: nil collection")
            ELSE IF CollectionName \in collections
            THEN [replica[r] EXCEPT !.pc = "find", !.coll = "set", !.seed = 1]
            ELSE [replica[r] EXCEPT !.pc = "create"]]
    /\ UNCHANGED <<coll, assigned, req, collections, route, conv>>

\* prepareDatabase, the create command, issued because the listing lacked
\* the collection.  The command fails when the store is not reachable, and
\* the store may refuse to create a collection that exists by now
\* (NamespaceExists; whether it does depends on the version of mongo:latest);
\* log.Fatal ends the process on any failure.
Create(r) ==
    /\ replica[r].pc = "create"
    /\ \E outcome \in {"ok", "not reachable", "NamespaceExists"} :
         /\ outcome = "NamespaceExists" => CollectionName \in collections
         /\ IF outcome = "ok"
            THEN /\ collections' = collections \cup {CollectionName}
                 /\ replica' = [replica EXCEPT ![r] =
                       [replica[r] EXCEPT !.pc = "find", !.coll = "set",
                                          !.seed = 1]]
            ELSE /\ collections' = collections
                 /\ replica' = [replica EXCEPT ![r] =
                       Exited(r, "create: " \o outcome)]
    /\ UNCHANGED <<coll, assigned, req, route, conv>>

\* prepareData, coll.Find with the seed record as filter (its zero ID is
\* left out, so the five fields), and the branch on len(results).
Find(r) ==
    /\ replica[r].pc = "find"
    /\ \E ok \in BOOLEAN :
         LET k == replica[r].seed
             results == {d \in coll : StoreFields(d) = startData[k]}
         IN  replica' = [replica EXCEPT ![r] =
                IF ~ok
                THEN Exited(r, "panic: find")
                ELSE IF Cardinality(results) > 1
                THEN Exited(r, "more records were found")
                ELSE IF Cardinality(results) = 0
                THEN [replica[r] EXCEPT !.pc = "insert"]
                ELSE Advance(r, k)]
    /\ UNCHANGED <<coll, assigned, req, collections, route, conv>>

\* prepareData, coll.InsertOne of the seed record the Find did not return.
Insert(r) ==
    /\ replica[r].pc = "insert"
    /\ \E ok \in BOOLEAN :
         LET k == replica[r].seed
         IN  IF ok
             THEN /\ CanGenerate(assigned)
                  /\ LET ins == InsertOne(coll, assigned,
                                          BookStore(NilObjectID, startData[k]))
                     IN  /\ coll' = ins.coll
                         /\ assigned' = assigned \cup {ins.InsertedID}
                  /\ replica' = [replica EXCEPT ![r] = Advance(r, k)]
             ELSE /\ replica' = [replica EXCEPT ![r] = Exited(r, "panic: insert")]
                  /\ UNCHANGED <<coll, assigned>>
    /\ UNCHANGED <<req, collections, route, conv>>

\* compose up on an empty store: nothing runs yet.
InitBoot ==
    /\ coll = {}
    /\ assigned = {}
    /\ req = [c \in Clients |-> Idle]
    /\ replica = [r \in Replicas |-> Down]
    /\ collections = {}
    /\ route = [c \in Clients |-> NoRoute]
    /\ conv = NoConv

NextBoot ==
    \E r \in BootReplicas :
        \/ Start(r)
        \/ List(r)
        \/ Create(r)
        \/ Find(r)
        \/ Insert(r)

SpecBoot == InitBoot /\ [][NextBoot]_allVars

\* ------------------------------------------------------------- conversion
\* Wire records for the conversion on its own: every identifier string of
\* up to IdHexLen characters over digits, lower and upper case hex letters
\* and a letter that is no hex digit.
ConvChars == {"0", "a", "A", "d", "z"}

ConvIds ==
    {<<>>} \cup {<<x>> : x \in ConvChars}
           \cup {<<x, y>> : x \in ConvChars, y \in ConvChars}

ConvBooks == {Book(i, f) : i \in ConvIds, f \in InputFields}

\* A wire record arrives (c.Bind).
InitConv ==
    /\ coll = {}
    /\ assigned = {}
    /\ req = [c \in Clients |-> Idle]
    /\ replica = [r \in Replicas |-> Serving]
    /\ collections = {CollectionName}
    /\ route = [c \in Clients |-> NoRoute]
    /\ conv \in {[NoConv EXCEPT !.stage = "wire", !.wire = b] : b \in ConvBooks}

\* convertToBookstore applied to the wire record.
Convert ==
    /\ conv.stage = "wire"
    /\ conv' = [conv EXCEPT !.stage = "stored",
                            !.stored = convertToBookstore(conv.wire)]
    /\ UNCHANGED <<coll, assigned, req, replica, collections, route>>

\* The persisted form mapped back to wire form as getAllBooks does it.
Render ==
    /\ conv.stage = "stored"
    /\ conv' = [conv EXCEPT !.stage = "back",
                            !.back = CHOOSE b \in getAllBooks({conv.stored}) : TRUE]
    /\ UNCHANGED <<coll, assigned, req, replica, collections, route>>

NextConv == Convert \/ Render

SpecConv == InitConv /\ [][NextConv]_allVars

\* ----------------------------------------------------------------- claims
\* Which step a transition is, read off the request record of client c.
\* First round trip of a handler (the whole handler for GET and DELETE).
Starts(c, method) ==
    Ready(c) /\ req'[c] # req[c] /\ req'[c].method = method

\* Second round trip of POST and of PUT.
Saves(c) == req[c].pc = "post_save" /\ req'[c].pc = "done"

Updates(c) == req[c].pc = "put_update" /\ req'[c].pc = "done"

\* The identifier a wire identifier denotes, or none.
Denoted(s) == ObjectIDFromHex(s).id

IsLive(id) == \E d \in coll : d.ID = id

WithFields(c, f) == {d \in c : StoreFields(d) = f}

\* Client c was answered 200 for a POST.
Posted200(c) ==
    req[c].pc = "done" /\ req[c].method = "POST" /\ req[c].status = StatusOK

\* C1: no two live records have the same five-field tuple, in every
\* reachable state, concurrent requests included.
C1_UniqueFiveFields ==
    \A d1, d2 \in coll : StoreFields(d1) = StoreFields(d2) => d1 = d2

\* C2: when a POST with tuple T was answered 200 and the record it stands
\* for was not deleted or updated since, a POST with the same T that starts
\* afterwards is answered 304 in its first round trip, inserts nothing, and
\* the store holds exactly one record with T.
C2_RepeatedPostRejected ==
    [][\A c1, c2 \in Clients :
         ( /\ c1 # c2
           /\ Posted200(c1)
           /\ \/ req[c1].ids = <<>>
              \/ BookStore(req[c1].ids[1], WireFields(req[c1].book)) \in coll
           /\ Starts(c2, "POST")
           /\ WireFields(req'[c2].book) = WireFields(req[c1].book) )
         => /\ req'[c2].pc = "done"
            /\ req'[c2].status = StatusDuplicatePost
            /\ coll' = coll
            /\ Cardinality(WithFields(coll', WireFields(req[c1].book))) = 1]_vars

\* C3: the insert round trip of POST does not look at the five fields: it
\* adds the record and is answered 200 with the new identifier whenever the
\* identifier is free, also when a record with the same five fields was
\* inserted since the guard ran.
C3_SaveIgnoresDuplicates ==
    [][\A c \in Clients :
         Saves(c) =>
           LET given == Denoted(req[c].book.id)
               id == IF given = NilObjectID THEN NewObjectID(assigned) ELSE given
           IN  ~IsLive(id) =>
                 /\ coll' = coll \cup {BookStore(id, WireFields(req[c].book))}
                 /\ Cardinality(coll') = Cardinality(coll) + 1
                 /\ req'[c].status = StatusOK
                 /\ req'[c].ids = <<id>>]_vars

\* C3, the race: two POSTs with the same five fields were both answered 200,
\* each with its own identifier, and the store holds both records.
C3_BothInserted ==
    \E c1, c2 \in Clients :
        /\ c1 # c2
        /\ Posted200(c1) /\ Posted200(c2)
        /\ WireFields(req[c1].book) = WireFields(req[c2].book)
        /\ req[c1].ids # <<>> /\ req[c2].ids # <<>>
        /\ req[c1].ids # req[c2].ids
        /\ BookStore(req[c1].ids[1], WireFields(req[c1].book)) \in coll
        /\ BookStore(req[c2].ids[1], WireFields(req[c2].book)) \in coll

\* C4: every POST that inserts a record gives it an identifier generated by
\* the store (not the one of the request body) that no record ever had.
C4_InsertedIdIsFresh ==
    [][\A c \in Clients :
         (Saves(c) /\ coll' # coll) =>
           \A d \in coll' \ coll :
               /\ d.ID \notin assigned
               /\ d.ID # Denoted(req[c].book.id)]_vars

\* C5: a PUT whose new five fields are those of a live record when the guard
\* runs is answered with a status other than 200 and changes nothing; a PUT
\* that passed the guard and whose identifier denotes a live record when
\* the update runs replaces that record's five fields and is answered 200.
C5_PutRejectsOrReplaces ==
    [][\A c \in Clients :
         /\ Starts(c, "PUT") =>
              ( WithFields(coll, WireFields(req'[c].book)) # {}
                => /\ req'[c].pc = "done"
                   /\ req'[c].status # StatusOK
                   /\ coll' = coll )
         /\ Updates(c) =>
              LET id == Denoted(req[c].book.id)
              IN  IsLive(id) =>
                    /\ coll' = {d \in coll : d.ID # id}
                                 \cup {BookStore(id, WireFields(req[c].book))}
                    /\ req'[c].status = StatusOK]_vars

\* C5: a PUT was rejected as a duplicate, and another replaced the five
\* fields of the first seed record.
C5_RejectedAndReplaced ==
    \E c1, c2 \in Clients :
        /\ req[c1].pc = "done" /\ req[c1].method = "PUT"
        /\ req[c1].status = StatusDuplicatePut
        /\ req[c2].pc = "done" /\ req[c2].method = "PUT"
        /\ req[c2].status = StatusOK
        /\ req[c2].book.id = Hex(FirstObjectID)
        /\ BookStore(FirstObjectID, Dune) \in coll

\* C6: when the insert of a POST fails, the answer has a status other than
\* 200 and no record is added.
C6_FailedInsertReported ==
    [][\A c \in Clients :
         (Saves(c) /\ IsLive(Denoted(req[c].book.id))) =>
           /\ req'[c].status # StatusOK
           /\ coll' = coll]_vars

\* C7: DELETE is always answered 200 with the same message; with an
\* identifier that denotes no live record (undecodable included) the store
\* is unchanged, otherwise exactly the record with that identifier is gone.
C7_DeleteExactlyThatRecord ==
    [][\A c \in Clients :
         Starts(c, "DELETE") =>
           LET dec == ObjectIDFromHex(req'[c].param)
           IN  /\ req'[c].pc = "done"
               /\ req'[c].status = StatusOK
               /\ req'[c].msg = "Succesfully deleted entry"
               /\ IF ~dec.err /\ IsLive(dec.id)
                  THEN /\ coll' = {d \in coll : d.ID # dec.id}
                       /\ Cardinality(coll') = Cardinality(coll) - 1
                  ELSE coll' = coll]_vars

\* C7: one DELETE had an undecodable identifier, another removed the first
\* seed record.
C7_DeletedAndNoOp ==
    \E c1, c2 \in Clients :
        /\ req[c1].pc = "done" /\ req[c1].method = "DELETE"
        /\ req[c1].param = <<"z", "z">>
        /\ req[c2].pc = "done" /\ req[c2].method = "DELETE"
        /\ req[c2].param = Hex(FirstObjectID)
        /\ ~IsLive(FirstObjectID)
        /\ Cardinality(coll) = Len(startData) - 1

\* C8: for every reachable store and every PUT request, handling the PUT
\* twice in succession leaves the store as handling it once does.
C8_PutIdempotent ==
    \A book \in InputBooks :
        PutBooks(PutBooks(coll, book).coll, book).coll = PutBooks(coll, book).coll

\* C8: a PUT has replaced the five fields of the first seed record, so a
\* repetition of it meets its own values.
C8_PutApplied ==
    \E c \in Clients :
        /\ req[c].pc = "done" /\ req[c].method = "PUT" /\ req[c].status = StatusOK
        /\ req[c].book = Book(Hex(FirstObjectID), Dune)
        /\ BookStore(FirstObjectID, Dune) \in coll
        /\ PutBooks(coll, req[c].book).status = StatusDuplicatePut

\* C9: a PUT that passed the guard and whose identifier denotes no live
\* record when the update runs is answered 200 and leaves the store
\* unchanged; the guard itself changes nothing.
C9_PutOfAbsentIdIsNoOp ==
    [][\A c \in Clients :
         /\ Starts(c, "PUT") => coll' = coll
         /\ Updates(c) =>
              ( ~IsLive(Denoted(req[c].book.id))
                => /\ coll' = coll
                   /\ req'[c].status = StatusOK )]_vars

\* C9: PUTs with an undecodable identifier and with an identifier never
\* assigned were answered 200.
C9_AbsentIdAccepted ==
    \E c1, c2 \in Clients :
        /\ req[c1].pc = "done" /\ req[c1].method = "PUT"
        /\ req[c1].status = StatusOK /\ req[c1].book.id = <<"z", "z">>
        /\ req[c2].pc = "done" /\ req[c2].method = "PUT"
        /\ req[c2].status = StatusOK
        /\ req[c2].book.id = Hex(FirstObjectID + Len(startData))
        /\ FirstObjectID + Len(startData) \notin assigned

\* C10: with no other request in flight, GET answers exactly the live
\* records; after a POST answered 200 the list has the posted five fields
\* under the generated identifier; after a PUT answered 200 for a live
\* identifier the list has the new values under it; after a DELETE the list
\* no longer has the identifier.
C10_GetShowsEffects ==
    [][\A c \in Clients :
         (\A o \in Clients \ {c} : Ready(o)) =>
           /\ Starts(c, "GET") =>
                req'[c].books = {Book(Hex(d.ID), StoreFields(d)) : d \in coll}
           /\ (Saves(c) /\ req'[c].status = StatusOK) =>
                /\ req'[c].ids # <<>>
                /\ \E b \in getAllBooks(coll') :
                       /\ WireFields(b) = WireFields(req[c].book)
                       /\ b.id = Hex(req'[c].ids[1])
           /\ (Updates(c) /\ req'[c].status = StatusOK
                 /\ IsLive(Denoted(req[c].book.id))) =>
                Book(Hex(Denoted(req[c].book.id)), WireFields(req[c].book))
                    \in getAllBooks(coll')
           /\ Starts(c, "DELETE") =>
                \A b \in getAllBooks(coll') : b.id # req'[c].param]_vars

\* C14: identifiers denote at most one live record in every state, and a
\* PUT's update changes nothing but the five fields of the record with its
\* identifier: the other records and the set of identifiers stay as they are.
C14_IdentifiersStable ==
    [][/\ \A d1, d2 \in coll : d1.ID = d2.ID => d1 = d2
       /\ \A d1, d2 \in coll' : d1.ID = d2.ID => d1 = d2
       /\ \A c \in Clients :
            Updates(c) =>
              LET i == Denoted(req[c].book.id)
              IN  /\ req'[c].status = StatusOK
                  /\ {d.ID : d \in coll'} = {d.ID : d \in coll}
                  /\ {d \in coll' : d.ID # i} = {d \in coll : d.ID # i}
                  /\ IsLive(i) =>
                       BookStore(i, WireFields(req[c].book)) \in coll']_vars

\* C14: a PUT answered 200 has given the first seed record new values, and
\* the three seed identifiers are the identifiers of the store.
C14_UpdatedInPlace ==
    \E c \in Clients :
        /\ req[c].pc = "done" /\ req[c].method = "PUT" /\ req[c].status = StatusOK
        /\ req[c].book.id = Hex(FirstObjectID)
        /\ BookStore(FirstObjectID, WireFields(req[c].book)) \in coll
        /\ WireFields(req[c].book) # startData[1]
        /\ {d.ID : d \in coll} = {FirstObjectID + k - 1 : k \in 1..Len(startData)}

\* C20: the guard of PUT counts the record being updated: a PUT whose new
\* five fields are held by any live record, the record with the PUT's own
\* identifier included, is answered with the duplicate status 201, not 200,
\* and changes nothing.
C20_GuardCountsOwnRecord ==
    [][\A c \in Clients :
         Starts(c, "PUT") =>
           LET b == req'[c].book
               own == {d \in coll : d.ID = Denoted(b.id)}
               others == {d \in coll : d.ID # Denoted(b.id)}
           IN  ( \/ \E d \in own : StoreFields(d) = WireFields(b)
                 \/ \E d \in others : StoreFields(d) = WireFields(b) )
               => /\ req'[c].pc = "done"
                  /\ req'[c].status = StatusDuplicatePut
                  /\ req'[c].status # StatusOK
                  /\ coll' = coll]_vars

\* C20: a PUT that repeats the current values of the first seed record,
\* which no other record holds, was answered 201.
C20_OwnValuesRejected ==
    \E c \in Clients :
        /\ req[c].pc = "done" /\ req[c].method = "PUT"
        /\ req[c].status = StatusDuplicatePut
        /\ req[c].book = Book(Hex(FirstObjectID), startData[1])
        /\ WithFields(coll, startData[1]) = {BookStore(FirstObjectID, startData[1])}

\* A wire identifier in the form Hex() renders: full length, digits and
\* lower-case hex letters only.
IsRenderedHex(s) ==
    Len(s) = IdHexLen /\ \A k \in 1..Len(s) : \E j \in 1..16 : LowerDigits[j] = s[k]

\* A wire identifier ObjectIDFromHex accepts: full length, hex digits of
\* either case.
IsHexId(s) ==
    Len(s) = IdHexLen
    /\ \A k \in 1..Len(s) : \E j \in 1..16 : LowerDigits[j] = s[k] \/ UpperDigits[j] = s[k]

\* C13: converting a wire record to persisted form and back gives the same
\* five fields, and every non-empty wire identifier is mapped to the
\* internal identifier whose hex rendering is that wire identifier.
C13_RoundTrip ==
    conv.stage = "back" =>
        /\ WireFields(conv.back) = WireFields(conv.wire)
        /\ conv.wire.id # <<>> => Hex(conv.stored.ID) = conv.wire.id

\* C13 as amended: the five fields are preserved; a wire identifier of full
\* length in digits and lower-case hex letters is mapped to the internal
\* identifier whose hex rendering is that wire identifier; a wire identifier
\* that is no hex identifier is mapped to the zero identifier.
C13_RoundTripRendered ==
    conv.stage = "back" =>
        /\ WireFields(conv.back) = WireFields(conv.wire)
        /\ IsRenderedHex(conv.wire.id) =>
             /\ Hex(conv.stored.ID) = conv.wire.id
             /\ conv.back.id = conv.wire.id
        /\ ~IsHexId(conv.wire.id) => conv.stored.ID = NilObjectID

\* C13: the wire record with identifier "0a" went to persisted form, where
\* it has identifier 10, and back.
C13_RoundTripDone ==
    /\ conv.stage = "back"
    /\ conv.wire.id = <<"0", "a">>
    /\ conv.stored.ID = FirstObjectID
    /\ conv.back = conv.wire

\* The router has just taken the request of client c.
Routed(c) == route'[c] # route[c]

VerbPools == [GET |-> "get", POST |-> "post", PUT |-> "put", DELETE |-> "delete"]

\* C11: every request the router has taken went to one pool, fixed by the
\* prefix of its path and its method: a path that does not begin with /api
\* went to the full pool whatever the method; a path that begins with /api
\* with GET, POST, PUT or DELETE went to the pool of that verb, hence to no
\* pool of another verb and not to the full pool.
C11_OnePoolByPrefixAndMethod ==
    \A c \in RouterClients :
        route[c] # NoRoute =>
            IF ~HasPrefix(route[c].path, PathApi)
            THEN route[c].pool = "backend"
            ELSE route[c].method \in DOMAIN VerbPools =>
                    /\ route[c].pool = VerbPools[route[c].method]
                    /\ route[c].pool # "backend"

\* C11: a PUT to /api/books went to the put pool, whose replica applied it.
C11_PutReachedPutPool ==
    \E c \in RouterClients :
        /\ route[c].path = PathApiBooks /\ route[c].method = "PUT"
        /\ route[c].pool = "put"
        /\ req[c].pc = "done" /\ req[c].method = "PUT"
        /\ req[c].status = StatusOK

\* C12: a request whose path begins with /api and whose method is none of
\* GET, POST, PUT, DELETE is passed to no pool, leaves the store as it is,
\* and is answered with an error status.
C12_UnmatchedMethodRejected ==
    [][\A c \in RouterClients :
         (/\ Routed(c)
          /\ HasPrefix(route'[c].path, PathApi)
          /\ route'[c].method \notin DOMAIN VerbPools) =>
            /\ route'[c].pool = "none"
            /\ route'[c].status >= 400
            /\ req'[c] = Idle
            /\ coll' = coll
            /\ assigned' = assigned]_allVars

\* C12: a PATCH to /api/books was rejected after a record had been deleted,
\* and the store still lacks exactly that record.
C12_PatchRejected ==
    \E c \in RouterClients :
        /\ route[c].path = PathApiBooks /\ route[c].method = "PATCH"
        /\ route[c].pool = "none" /\ route[c].status = 405
        /\ Cardinality(coll) = Len(startData) - 1

\* C17 (as stated): every request through the router is handled as a single
\* process handles it: the same step on the store, the same answer.
C17_TopologyEqualsSingleProcess ==
    [][\A c \in RouterClients :
         Routed(c) =>
            /\ Serve(c, route'[c].method, route'[c].path)
            /\ route'[c].status
                 = Dispatch(route'[c].method, route'[c].path).status]_allVars

\* C17 (amended): a request the router passes on is handled as a single
\* process handles it, whichever replica it went to; a request the router
\* rejects is answered by the router with an error of its own and leaves
\* the store unchanged, where a single process answers with an error too.
C17_ForwardedEqualsSingleProcess ==
    [][\A c \in RouterClients :
         Routed(c) =>
            /\ Serve(c, route'[c].method, route'[c].path)
            /\ IF route'[c].pool # "none"
               THEN route'[c].status
                      = Dispatch(route'[c].method, route'[c].path).status
               ELSE /\ route'[c].status >= 400
                    /\ Dispatch(route'[c].method, route'[c].path).status >= 400
                    /\ coll' = coll]_allVars

\* C17: a DELETE went to the delete replica and removed the first seed
\* record, as a single process does.
C17_DeleteViaReplica ==
    \E c \in RouterClients :
        /\ route[c].pool = "delete" /\ route[c].method = "DELETE"
        /\ route[c].path = PathApiBooksId(Hex(FirstObjectID))
        /\ req[c].pc = "done" /\ req[c].param = Hex(FirstObjectID)
        /\ ~IsLive(FirstObjectID)

\* C15: a replica serves only with the connection string configured, the
\* collection handle obtained (the listing succeeded) and the collection in
\* existence; a process left without the configuration variable has ended;
\* a process that has ended takes no further step: it neither serves nor
\* retries.
C15_ServesOnlyWhenBootstrapped ==
    [][\A r \in BootReplicas :
         /\ replica'[r].pc = "serving" =>
               /\ replica'[r].uri = DatabaseUri
               /\ replica'[r].coll = "set"
               /\ CollectionName \in collections'
         /\ (replica'[r].pc # "down" /\ replica'[r].uri = "") =>
               replica'[r].pc = "exited"
         /\ (replica[r].pc = "list" /\ replica'[r].pc \notin {"list", "exited"}) =>
               replica'[r].pc \in {"find", "create"}
         /\ replica[r].pc = "exited" => replica'[r] = replica[r]]_allVars

\* C15: one replica serves while one has ended on the missing variable and
\* one on the failed listing.
C15_OneServesTwoEnded ==
    \E r1, r2, r3 \in BootReplicas :
        /\ replica[r1].pc = "serving"
        /\ replica[r2].pc = "exited"
        /\ replica[r2].reason = "failure to load env variable"
        /\ replica[r3].pc = "exited"
        /\ replica[r3].reason = "panic: nil collection"

\* C16: a create is issued only while the collection is missing, and no
\* replica ends because the collection exists already.
C16_BootstrapIdempotent ==
    [][\A r \in BootReplicas :
         (replica[r].pc = "create" /\ replica'[r] # replica[r]) =>
            /\ CollectionName \notin collections
            /\ replica'[r].reason # "create: NamespaceExists"]_allVars

\* C18: each seed tuple is in the store at most once.
C18_SeedsAtMostOnce ==
    \A k \in 1..Len(startData) :
        Cardinality(WithFields(coll, startData[k])) <= 1

\* C19: prepareData never ends the process with "more records were found".
C19_SeedingNeverAborts ==
    \A r \in BootReplicas : replica[r].reason # "more records were found"


====
